---- MODULE Spec2Model ----
(***************************************************************************)
(* Model of the SCION AD management daemon (ad_management/                 *)
(* monitoring_daemon.py) and of the topology diff of the web panel         *)
(* (web_scion/ad_manager/views.py).                                        *)
(*                                                                         *)
(* Each registered RPC method is one action; its body is an operator that  *)
(* computes, from the state before the call and the inputs, the outcome of *)
(* the call (a returned envelope or a raised exception) and its effects.   *)
(* The external services (file system, supervisor, ZooKeeper) are state    *)
(* variables; their faults are inputs of the actions.                      *)
(***************************************************************************)
EXTENDS Integers, Sequences, FiniteSets, TLC

VARIABLES
    fs,         \* file system seen by send_update: [dirs, files]
    zk,         \* ZooKeeper: lock path -> names of its children
    sessions,   \* number of ZooKeeper sessions that are open
    procs,      \* supervisor: full process name -> statename
    current_topology,  \* web panel: the topology generated from its database
    remote_topology,   \* web panel: the topology fetched from the daemon, or None
    db,         \* web panel: AD records, ADs with rewritten elements, packages
    topo_file,  \* daemon: the text of the AD's topology file, or NoFile
    scheduled,  \* restart threads started by update_topology
    restarted,  \* restart threads that have called supervisor.restart()
    pushed,     \* the document of the last successful update_topology, or None
    writer,     \* the update_topology call in progress: its position and inputs
    call        \* the last RPC call: method, arguments, outcome, effects

vars == <<fs, zk, sessions, procs, current_topology, remote_topology, db,
          topo_file, scheduled, restarted, pushed, writer, call>>

updVars == <<fs>>

zkVars == <<zk, sessions>>

supVars == <<procs>>

diffVars == <<current_topology, remote_topology, db>>

topoVars == <<topo_file, scheduled, restarted, pushed, writer>>

(***************************************************************************)
(* Generic helpers                                                         *)
(***************************************************************************)
Last(s) == s[Len(s)]

SeqsUpTo(S, n) == UNION {[1..k -> S] : k \in 1..n}

None == [none |-> TRUE]

(***************************************************************************)
(* RPC envelope (ad_management/common.py: response_success,                *)
(* response_failure, is_success).  An outcome is what leaves the handler: *)
(* a returned value, or an exception that the handler did not catch.       *)
(***************************************************************************)
response_success(data) == <<TRUE, data>>

response_failure(err) == <<FALSE, <<err>>>>

is_success(response) == response[1]

Returned(v) == [raised |-> FALSE, value |-> v]

Raised(e) == [raised |-> TRUE, value |-> e]

NoCall == [method |-> "none"]

\* The serving loop handles one request at a time on a connection: a handler
\* runs when no call is being answered, and Reply delivers its outcome.
Idle == call = NoCall

(***************************************************************************)
(* File system.  A path string is the sequence of its "/"-separated        *)
(* segments ("../../etc/passwd" is <<"..", "..", "etc", "passwd">>, "a/"   *)
(* is <<"a", "">>, "/etc" is <<"", "etc">>).  A resolved path is the       *)
(* sequence of directory entries from the root.                            *)
(***************************************************************************)
UPDATE_DIR_PATH == <<"", "scion", "updates">>

PROJECT_ROOT == <<"", "scion">>

StagingDir == <<"scion", "updates">>

\* os.path.basename: everything after the last "/"
basename(p) == <<Last(p)>>

\* os.path.join(a, b)
path_join(a, b) ==
    IF Len(b) >= 2 /\ b[1] = "" THEN b
    ELSE IF Last(a) = "" THEN SubSeq(a, 1, Len(a) - 1) \o b
    ELSE a \o b

IsDirSeg(s) == s \in {"", ".", ".."}

\* The directory reached from cur by one segment (kernel path walk).
StepDir(cur, s) ==
    IF s \in {"", "."} THEN cur
    ELSE IF s = ".." THEN (IF cur = <<>> THEN cur ELSE SubSeq(cur, 1, Len(cur) - 1))
    ELSE Append(cur, s)

RECURSIVE WalkDirs(_, _, _)
\* Walk the segments segs[i..] that must all be directories; <<"ENOENT">> if
\* one of them is not.
WalkDirs(dirs, cur, segs) ==
    IF segs = <<>> THEN <<"ok", cur>>
    ELSE LET nxt == StepDir(cur, Head(segs))
         IN IF nxt \in dirs THEN WalkDirs(dirs, nxt, Tail(segs))
            ELSE <<"ENOENT", cur>>

os_path_exists(fsys, p) ==
    LET w == WalkDirs(fsys.dirs, <<>>, SubSeq(p, 1, Len(p) - 1))
    IN /\ w[1] = "ok"
       /\ LET t == StepDir(w[2], Last(p))
          IN t \in fsys.dirs \/ (~IsDirSeg(Last(p)) /\ t \in DOMAIN fsys.files)

os_path_isdir(fsys, p) ==
    LET w == WalkDirs(fsys.dirs, <<>>, SubSeq(p, 1, Len(p) - 1))
    IN w[1] = "ok" /\ StepDir(w[2], Last(p)) \in fsys.dirs

RECURSIVE MkAll(_, _, _)
MkAll(dirs, cur, segs) ==
    IF segs = <<>> THEN dirs
    ELSE LET nxt == StepDir(cur, Head(segs))
         IN MkAll(dirs \cup {nxt}, nxt, Tail(segs))

\* os.makedirs(p): creates the leaf and every missing ancestor
os_makedirs(fsys, p) == [fsys EXCEPT !.dirs = MkAll(fsys.dirs, <<>>, p)]

\* open(p, 'wb') followed by write(data) and close: the file system after,
\* or the error raised by open.
open_wb_write(fsys, p, data) ==
    LET w == WalkDirs(fsys.dirs, <<>>, SubSeq(p, 1, Len(p) - 1))
    IN IF w[1] # "ok" THEN [err |-> "FileNotFoundError", fs |-> fsys, at |-> <<>>]
       ELSE LET t == StepDir(w[2], Last(p))
            IN IF IsDirSeg(Last(p)) \/ t \in fsys.dirs
               THEN [err |-> "IsADirectoryError", fs |-> fsys, at |-> <<>>]
               ELSE [err |-> "none",
                     fs |-> [fsys EXCEPT !.files =
                                (t :> data) @@ fsys.files],
                     at |-> t]

(***************************************************************************)
(* base64 and SHA-1 on the payloads of the model (values of the real       *)
(* functions).  Bytes are numbers.  "QQ" has incorrect padding; the space  *)
(* in "Q Q==" is discarded by the non-validating decoder.                  *)
(***************************************************************************)
B64Error == <<-1>>

b64decode(s) ==
    CASE s = "QQ==" -> <<65>>
      [] s = "Q Q==" -> <<65>>
      [] s = "QUI=" -> <<65, 66>>
      [] OTHER -> B64Error

sha1_hexdigest(raw) ==
    CASE raw = <<65>> -> "6dcd4ce23d88e2ee9568ba546c007c63d9131c1b"
      [] raw = <<65, 66>> -> "06d945942aa26a61be18c3e22bf19bbca8dd2b5d"
      [] OTHER -> "da39a3ee5e6b4b0d3255bfef95601890afd80709"

(***************************************************************************)
(* send_update                                                             *)
(***************************************************************************)
\* the updater launched a second time
run_updater_twice(archive, path, popen_ok) ==
    IF popen_ok
    THEN [err |-> "none", spawned |-> << <<archive, path>>, <<archive, path>> >>,
          waited |-> FALSE]
    ELSE [err |-> "OSError", spawned |-> <<>>, waited |-> FALSE]

\* run_updater: Popen of the updater with the archive and the target path.
\* popen_ok = FALSE: the log file cannot be opened or the process not created.
\* waited: the call waits for the end of the process (there is no wait() or
\* communicate() on the Popen object).
run_updater(archive, path, popen_ok) ==
    IF popen_ok
    THEN [err |-> "none", spawned |-> << <<archive, path>> >>, waited |-> FALSE]
    ELSE [err |-> "OSError", spawned |-> <<>>, waited |-> FALSE]

\* str.lower on the digests of the model
lower(d) ==
    IF d = "6DCD4CE23D88E2EE9568BA546C007C63D9131C1B"
    THEN "6dcd4ce23d88e2ee9568ba546c007c63d9131c1b" ELSE d

\* a comparison that ignores the case of the hex digits
digest_matches_nocase(raw_data, received_digest) ==
    sha1_hexdigest(raw_data) = lower(received_digest)

\* hashlib.sha1(raw_data).hexdigest() != received_digest, negated
digest_matches(raw_data, received_digest) ==
    sha1_hexdigest(raw_data) = received_digest

\* the declared name used as it is
basename_whole(p) == p

\* archive_name = os.path.basename(data_dict['name'])
archive_name_of(name) == basename(name)

\* launch_fs: the file system at the time the updater is launched
NoEffect(fsys) ==
    [fs |-> fsys, written |-> <<>>, spawned |-> <<>>, launch_fs |-> None,
     waited |-> FALSE]

send_update(fsys, data_dict, popen_ok) ==
    LET raw_data == b64decode(data_dict.data)
    IN IF raw_data = B64Error
       THEN [out |-> Raised("binascii.Error")] @@ NoEffect(fsys)
       ELSE IF ~digest_matches(raw_data, data_dict.digest)
       THEN [out |-> Returned(response_failure("Hash value does not match"))]
            @@ NoEffect(fsys)
       ELSE
         LET fs1 == IF ~os_path_exists(fsys, UPDATE_DIR_PATH)
                    THEN os_makedirs(fsys, UPDATE_DIR_PATH) ELSE fsys
         IN IF ~os_path_isdir(fs1, UPDATE_DIR_PATH)
            THEN [out |-> Raised("AssertionError")] @@ NoEffect(fs1)
            ELSE
              LET archive_name == archive_name_of(data_dict.name)
                  out_file_path == path_join(UPDATE_DIR_PATH, archive_name)
                  w == open_wb_write(fs1, out_file_path, raw_data)
              IN IF w.err # "none"
                 THEN [out |-> Raised(w.err)] @@ NoEffect(fs1)
                 ELSE
                   LET u == run_updater(out_file_path, PROJECT_ROOT, popen_ok)
                   IN [out |-> IF u.err = "none"
                               THEN Returned(response_success("None"))
                               ELSE Raised(u.err),
                       fs |-> w.fs,
                       written |-> << <<w.at, raw_data>> >>,
                       spawned |-> u.spawned,
                       launch_fs |-> IF u.err = "none" THEN w.fs ELSE None,
                       waited |-> u.waited]

(***************************************************************************)
(* Inputs of send_update                                                   *)
(***************************************************************************)
MaxNameSegs == 4

NameSegs == {"", "..", "etc", "passwd"}

Names == SeqsUpTo(NameSegs, MaxNameSegs)

Payloads == {"QQ==", "Q Q==", "QUI=", "QQ"}

\* the digest of "A", the same with its last hex digit changed in one bit
\* (b = 1011, a = 1010), the same in upper case, and the digest of "AB"
Digests == {"6dcd4ce23d88e2ee9568ba546c007c63d9131c1b",
            "6dcd4ce23d88e2ee9568ba546c007c63d9131c1a",
            "6DCD4CE23D88E2EE9568BA546C007C63D9131C1B",
            "06d945942aa26a61be18c3e22bf19bbca8dd2b5d"}

\* The node before the first update: /etc/passwd and the project root exist;
\* the staging directory is absent or present.
BaseDirs == {<<>>, <<"etc">>, <<"scion">>}

BaseFiles == (<<"etc", "passwd">> :> <<0>>)

InitialFs ==
    { [dirs |-> BaseDirs, files |-> BaseFiles],
      [dirs |-> BaseDirs \cup {StagingDir}, files |-> BaseFiles] }

UpdOff == fs = [dirs |-> BaseDirs, files |-> BaseFiles]

ZkOff == zk = <<>> /\ sessions = 0

SupOff == procs = <<>>

NoFile == [nofile |-> TRUE]

\* the database with the one AD of the model, whose id (pk) is 1
InitialDb == [ads |-> {1}, refilled |-> {}, packages |-> {}]

DiffOff == current_topology = None /\ remote_topology = None /\ db = InitialDb

NoWriter == [pc |-> "idle"]

TopoOff ==
    /\ topo_file = NoFile
    /\ scheduled = 0
    /\ restarted = 0
    /\ pushed = None
    /\ writer = NoWriter

InitUpdate ==
    /\ fs \in InitialFs
    /\ ZkOff
    /\ SupOff
    /\ DiffOff
    /\ TopoOff
    /\ call = NoCall

SendUpdate ==
    /\ Idle
    /\ \E name \in Names, data \in Payloads, digest \in Digests, popen_ok \in BOOLEAN :
        LET data_dict == [name |-> name, data |-> data, digest |-> digest]
            r == send_update(fs, data_dict, popen_ok)
        IN /\ fs' = r.fs
           /\ call' = [method |-> "send_update", args |-> data_dict,
                       popen_ok |-> popen_ok, pre |-> fs, out |-> r.out,
                       written |-> r.written, spawned |-> r.spawned,
                       launch_fs |-> r.launch_fs, waited |-> r.waited]
           /\ UNCHANGED <<zkVars, supVars, diffVars, topoVars>>

Reply ==
    /\ ~Idle
    /\ call' = NoCall
    /\ UNCHANGED <<updVars, zkVars, supVars, diffVars, topoVars>>

NextUpdate == SendUpdate \/ Reply

SpecUpdate == InitUpdate /\ [][NextUpdate]_vars

(***************************************************************************)
(* get_master_id.  Strings are sequences of code points: 95 is "_", 48..57 *)
(* are the digits, 0 is NUL.                                               *)
(***************************************************************************)
RECURSIVE split_sep2(_, _, _, _)
\* str.split(sep) for a separator of two equal characters c, left to right
split_sep2(str, c, cur, acc) ==
    IF str = <<>> THEN Append(acc, cur)
    ELSE IF Len(str) >= 2 /\ str[1] = c /\ str[2] = c
    THEN split_sep2(SubSeq(str, 3, Len(str)), c, <<>>, Append(acc, cur))
    ELSE split_sep2(Tail(str), c, Append(cur, Head(str)), acc)

RECURSIVE split_byte(_, _, _, _)
\* bytes.split(sep) for a separator of one byte
split_byte(str, c, cur, acc) ==
    IF str = <<>> THEN Append(acc, cur)
    ELSE IF Head(str) = c
    THEN split_byte(Tail(str), c, <<>>, Append(acc, cur))
    ELSE split_byte(Tail(str), c, Append(cur, Head(str)), acc)

\* get_id = lambda name: name.split('__')[-1]
get_id(name) == Last(split_sep2(name, 95, <<>>, <<>>))

RECURSIVE str_less(_, _)
\* a < b for Python strings: lexicographic on the code points
str_less(a, b) ==
    IF b = <<>> THEN FALSE
    ELSE IF a = <<>> THEN TRUE
    ELSE IF Head(a) # Head(b) THEN Head(a) < Head(b)
    ELSE str_less(Tail(a), Tail(b))

RECURSIVE int_of(_)
\* int(s) for a string of decimal digits
int_of(digits) ==
    IF digits = <<>> THEN 0
    ELSE 10 * int_of(SubSeq(digits, 1, Len(digits) - 1)) + (Last(digits) - 48)

\* key(a) < key(b) in sorted(contenders, key=get_id)
key_less(a, b) == str_less(get_id(a), get_id(b))

RECURSIVE insert_sorted(_, _)
\* x placed after every element whose key is not larger (the sort is stable)
insert_sorted(x, sorted_seq) ==
    IF sorted_seq = <<>> THEN <<x>>
    ELSE IF key_less(x, Head(sorted_seq)) THEN <<x>> \o sorted_seq
    ELSE <<Head(sorted_seq)>> \o insert_sorted(x, Tail(sorted_seq))

RECURSIVE sorted_by_id(_)
sorted_by_id(contenders) ==
    IF contenders = <<>> THEN <<>>
    ELSE insert_sorted(Last(contenders),
                       sorted_by_id(SubSeq(contenders, 1, Len(contenders) - 1)))

\* lock_path = '/ISD{}-AD{}/{}/lock'.format(isd_id, ad_id, server_type)
lock_path(isd_id, ad_id, server_type) == <<"ISD", isd_id, "AD", ad_id, server_type, "lock">>

\* the emptiness test never succeeding
no_contenders_never(contenders) == FALSE

\* if not contenders
no_contenders(contenders) == contenders = <<>>

\* kc.stop() reached only when the try block returns
stop_on_return(ops, how) == IF how = "return" THEN Append(ops, "stop") ELSE ops

\* finally: kc.stop(); how is the way the try block was left
finally_stop(ops, how) == Append(ops, "stop")

\* The value stored in a lock child (kazoo writes identity NUL host NUL port).
LockContents(child) ==
    CASE child = <<97, 95, 95, 48, 48, 48, 48, 48, 48, 48, 48, 48, 51>> -> <<109, 51, 0, 104, 0, 112>>
      [] child = <<98, 95, 95, 48, 48, 48, 48, 48, 48, 48, 48, 48, 49>> -> <<109, 49, 0, 104, 0, 112>>
      [] child = <<99, 95, 95, 48, 48, 48, 48, 48, 48, 48, 48, 48, 55>> -> <<109, 55, 0, 104>>
      [] child = <<100, 95, 95, 49, 48>> -> <<109, 49, 48, 0, 104, 0, 112, 0, 120>>
      [] OTHER -> <<109, 57, 0, 104, 0, 112>>

\* The outcome, the ZooKeeper client operations and the lock holder chosen
\* by get_master_id.  listing is the order in which get_children lists the
\* children; fault names the client operation that fails and how.
\* the NoNodeError is not caught
NoNodeError_uncaught == Raised("NoNodeError")

\* except NoNodeError: return response_failure('No lock data found')
except_NoNodeError == Returned(response_failure("No lock data found"))

\* every server type is let through
valid_server_type_any(server_type) == TRUE

\* server_type in ['bs', 'cs', 'ps']
valid_server_type(server_type) == server_type \in {"bs", "cs", "ps"}

get_master_id(zkstate, isd_id, ad_id, server_type, listing, fault) ==
    IF ~valid_server_type(server_type)
    THEN [out |-> Returned(response_failure("Invalid server type")),
          ops |-> <<>>, holder |-> <<>>]
    ELSE
      LET path == lock_path(isd_id, ad_id, server_type)
          kc == <<"KazooClient">>
      IN IF fault = "start"
         THEN [out |-> Raised("KazooTimeoutError"),
               ops |-> finally_stop(Append(kc, "start_failed"), "raise"),
               holder |-> <<>>]
         ELSE IF fault = "get_children"
         THEN [out |-> Raised("ConnectionLoss"),
               ops |-> finally_stop(kc \o <<"start", "get_children">>, "raise"),
               holder |-> <<>>]
         ELSE IF path \notin DOMAIN zkstate
         THEN [out |-> except_NoNodeError,
               ops |-> finally_stop(kc \o <<"start", "get_children">>, "except"),
               holder |-> <<>>]
         ELSE IF no_contenders(listing)
         THEN [out |-> Returned(response_failure("No lock contenders found")),
               ops |-> finally_stop(kc \o <<"start", "get_children">>, "return"),
               holder |-> <<>>]
         ELSE IF listing = <<>>
         THEN [out |-> Raised("IndexError"),
               ops |-> finally_stop(kc \o <<"start", "get_children">>, "raise"),
               holder |-> <<>>]
         ELSE
           LET lock_holder_file == sorted_by_id(listing)[1]
               ops3 == kc \o <<"start", "get_children", "get">>
           IN IF fault = "get_nonode"
              THEN [out |-> except_NoNodeError,
                    ops |-> finally_stop(ops3, "except"),
                    holder |-> lock_holder_file]
              ELSE IF fault = "get"
              THEN [out |-> Raised("ConnectionLoss"),
                    ops |-> finally_stop(ops3, "raise"),
                    holder |-> lock_holder_file]
              ELSE
                LET fields == split_byte(LockContents(lock_holder_file), 0, <<>>, <<>>)
                IN IF Len(fields) # 3
                   THEN [out |-> Raised("ValueError"),
                         ops |-> finally_stop(ops3, "raise"),
                         holder |-> lock_holder_file]
                   ELSE IF \E i \in 1..Len(fields[1]) : fields[1][i] >= 128
                   THEN [out |-> Raised("UnicodeDecodeError"),
                         ops |-> finally_stop(ops3, "raise"),
                         holder |-> lock_holder_file]
                   ELSE [out |-> Returned(response_success(fields[1])),
                         ops |-> finally_stop(ops3, "return"),
                         holder |-> lock_holder_file]

\* sessions opened by start and not closed by a later stop
RECURSIVE OpenAfter(_, _)
OpenAfter(ops, open) ==
    IF ops = <<>> THEN open
    ELSE OpenAfter(Tail(ops),
                   IF Head(ops) = "start" THEN open + 1
                   ELSE IF Head(ops) = "stop" /\ open > 0 THEN open - 1
                   ELSE open)

(***************************************************************************)
(* Inputs of get_master_id and the lock node                               *)
(***************************************************************************)
MaxChildren == 3

\* a__0000000003, b__0000000001, c__0000000007, d__10, e__9
ChildPool ==
    { <<97, 95, 95, 48, 48, 48, 48, 48, 48, 48, 48, 48, 51>>,
      <<98, 95, 95, 48, 48, 48, 48, 48, 48, 48, 48, 48, 49>>,
      <<99, 95, 95, 48, 48, 48, 48, 48, 48, 48, 48, 48, 55>>,
      <<100, 95, 95, 49, 48>>,
      <<101, 95, 95, 57>> }

BsLock == lock_path(1, 1, "bs")

ServerTypes == {"bs", "cs", "ps", "ds"}

ZkFaults == {"none", "start", "get_children", "get_nonode", "get"}

Listings(S) == {l \in [1..Cardinality(S) -> S] : \A i, j \in DOMAIN l : i # j => l[i] # l[j]}

ChildSets == {S \in SUBSET ChildPool : Cardinality(S) <= MaxChildren}

InitMaster ==
    /\ zk \in {<<>>} \cup {(BsLock :> S) : S \in ChildSets}
    /\ sessions = 0
    /\ UpdOff
    /\ SupOff
    /\ DiffOff
    /\ TopoOff
    /\ call = NoCall

GetMasterId ==
    /\ Idle
    /\ \E server_type \in ServerTypes, fault \in ZkFaults :
         LET path == lock_path(1, 1, server_type)
             children == IF path \in DOMAIN zk THEN zk[path] ELSE {}
         IN \E listing \in Listings(children) :
              LET r == get_master_id(zk, 1, 1, server_type, listing, fault)
              IN /\ sessions' = OpenAfter(r.ops, sessions)
                 /\ call' = [method |-> "get_master_id", server_type |-> server_type,
                             listing |-> listing, fault |-> fault,
                             pre |-> zk, out |-> r.out, ops |-> r.ops,
                             holder |-> r.holder]
                 /\ UNCHANGED <<zk, updVars, supVars, diffVars, topoVars>>

\* the lock holders and contenders come and go; the lock path is created with
\* the first contender
ZkChange ==
    /\ Idle
    /\ \E S \in ChildSets :
         /\ zk' \in {<<>>, (BsLock :> S)}
         /\ zk' # zk
    /\ UNCHANGED <<sessions, updVars, supVars, diffVars, topoVars, call>>

NextMaster == GetMasterId \/ ZkChange \/ Reply

SpecMaster == InitMaster /\ [][NextMaster]_vars

(***************************************************************************)
(* Process control.  The supervisor is reached through one XML-RPC request *)
(* per call of server.supervisor.*; ctx carries the supervisor's state,    *)
(* the requests sent so far and the number of the request that fails       *)
(* (0: none).  A failing request raises in the client (xmlrpc Fault or a   *)
(* connection error) and changes nothing in the supervisor.                *)
(***************************************************************************)
\* 'ad{}-{}'.format(isd_id, ad_id)
get_full_ad_name(isd_id, ad_id) == <<"ad", isd_id, ad_id>>

\* '{}:{}'.format(ad_name, process_name)
full_name(ad_name, process_name) == <<ad_name, process_name>>

Val(ctx, v) == [ctx |-> ctx, raised |-> FALSE, value |-> v]

Exc(ctx, e) == [ctx |-> ctx, raised |-> TRUE, value |-> e]

Sent(ctx, req) == [ctx EXCEPT !.reqs = Append(@, req)]

Fails(ctx) == Len(ctx.reqs) + 1 = ctx.fault_at

\* server.supervisor.getProcessInfo(name)
sup_getProcessInfo(ctx, name) ==
    LET c1 == Sent(ctx, <<"getProcessInfo", name>>)
    IN IF Fails(ctx) THEN Exc(c1, "Fault")
       ELSE IF name \notin DOMAIN ctx.procs THEN Exc(c1, "Fault: BAD_NAME")
       ELSE Val(c1, [name |-> name[2], group |-> name[1],
                     statename |-> ctx.procs[name]])

\* server.supervisor.startProcess(name): waits until the process runs
sup_startProcess(ctx, name) ==
    LET c1 == Sent(ctx, <<"startProcess", name>>)
    IN IF Fails(ctx) THEN Exc(c1, "Fault")
       ELSE IF name \notin DOMAIN ctx.procs THEN Exc(c1, "Fault: BAD_NAME")
       ELSE IF ctx.procs[name] = "RUNNING" THEN Exc(c1, "Fault: ALREADY_STARTED")
       ELSE Val([c1 EXCEPT !.procs[name] = "RUNNING"], TRUE)

\* server.supervisor.stopProcess(name): waits until the process is stopped
sup_stopProcess(ctx, name) ==
    LET c1 == Sent(ctx, <<"stopProcess", name>>)
    IN IF Fails(ctx) THEN Exc(c1, "Fault")
       ELSE IF name \notin DOMAIN ctx.procs THEN Exc(c1, "Fault: BAD_NAME")
       ELSE IF ctx.procs[name] \notin {"RUNNING", "STARTING"}
       THEN Exc(c1, "Fault: NOT_RUNNING")
       ELSE Val([c1 EXCEPT !.procs[name] = "STOPPED"], TRUE)

get_process_info(ctx, full_process_name) ==
    LET info == sup_getProcessInfo(ctx, full_process_name)
    IN IF info.raised THEN info
       ELSE Val(info.ctx, response_success(info.value))

get_process_state(ctx, full_process_name) ==
    LET info_response == get_process_info(ctx, full_process_name)
    IN IF info_response.raised THEN info_response
       ELSE IF is_success(info_response.value)
       THEN Val(info_response.ctx, info_response.value[2].statename)
       ELSE Val(info_response.ctx, "None")

start_process(ctx, process_name) ==
    LET st == get_process_state(ctx, process_name)
    IN IF st.raised THEN st
       ELSE IF st.value \in {"RUNNING", "STARTING"} THEN Val(st.ctx, TRUE)
       ELSE sup_startProcess(st.ctx, process_name)

\* the stop step answers without a request to the supervisor
stop_process_skipped(ctx, process_name) == Val(ctx, TRUE)

stop_process(ctx, process_name) ==
    LET st == get_process_state(ctx, process_name)
    IN IF st.raised THEN st
       ELSE IF st.value \notin {"RUNNING", "STARTING"} THEN Val(st.ctx, TRUE)
       ELSE sup_stopProcess(st.ctx, process_name)

\* every command is taken as START
control_process_unchecked(ctx, isd_id, ad_id, process_name, command) ==
    LET res == start_process(ctx, full_name(get_full_ad_name(isd_id, ad_id),
                                            process_name))
    IN IF res.raised THEN res ELSE Val(res.ctx, response_success(res.value))

control_process(ctx, isd_id, ad_id, process_name, command) ==
    LET ad_name == get_full_ad_name(isd_id, ad_id)
        full_process_name == full_name(ad_name, process_name)
    IN IF command = "START"
       THEN LET res == start_process(ctx, full_process_name)
            IN IF res.raised THEN res ELSE Val(res.ctx, response_success(res.value))
       ELSE IF command = "STOP"
       THEN LET res == stop_process(ctx, full_process_name)
            IN IF res.raised THEN res ELSE Val(res.ctx, response_success(res.value))
       ELSE IF command = "RESTART"
       THEN LET stopped == stop_process(ctx, full_process_name)
            IN IF stopped.raised THEN stopped
               ELSE LET res == start_process(stopped.ctx, full_process_name)
                    IN IF res.raised THEN res
                       ELSE Val(res.ctx, response_success(res.value))
       ELSE Val(ctx, response_failure("Invalid command"))

(***************************************************************************)
(* Inputs of the process methods and the supervisor                        *)
(***************************************************************************)
StateNames == {"STOPPED", "STARTING", "RUNNING", "STOPPING",
               "BACKOFF", "FATAL", "EXITED", "UNKNOWN"}

\* the processes the supervisor is configured with
Configured == {full_name(get_full_ad_name(1, 1), "bs1-1-1"),
               full_name(get_full_ad_name(1, 1), "ps1-1-1")}

ProcessNames == {"bs1-1-1", "ps1-1-1", "zz"}

Commands == {"START", "STOP", "RESTART", "KILL"}

\* a RESTART sends at most four requests
FaultPoints == 0..4

Ctx(fault_at) == [procs |-> procs, reqs |-> <<>>, fault_at |-> fault_at]

InitProc ==
    /\ procs \in [Configured -> StateNames]
    /\ UpdOff
    /\ ZkOff
    /\ DiffOff
    /\ TopoOff
    /\ call = NoCall

ControlProcess ==
    /\ Idle
    /\ \E process_name \in ProcessNames, command \in Commands, fault_at \in FaultPoints :
         LET r == control_process(Ctx(fault_at), 1, 1, process_name, command)
         IN /\ procs' = r.ctx.procs
            /\ call' = [method |-> "control_process",
                        name |-> full_name(get_full_ad_name(1, 1), process_name),
                        command |-> command, fault_at |-> fault_at, pre |-> procs,
                        out |-> [raised |-> r.raised, value |-> r.value],
                        reqs |-> r.ctx.reqs]
            /\ UNCHANGED <<updVars, zkVars, diffVars, topoVars>>

GetProcessInfo ==
    /\ Idle
    /\ \E process_name \in ProcessNames, fault_at \in 0..1 :
         LET name == full_name(get_full_ad_name(1, 1), process_name)
             r == get_process_info(Ctx(fault_at), name)
         IN /\ procs' = r.ctx.procs
            /\ call' = [method |-> "get_process_info", name |-> name,
                        command |-> "none", fault_at |-> fault_at, pre |-> procs,
                        out |-> [raised |-> r.raised, value |-> r.value],
                        reqs |-> r.ctx.reqs]
            /\ UNCHANGED <<updVars, zkVars, diffVars, topoVars>>

\* the supervisor's processes change state on their own (they finish
\* starting, exit, are restarted by the supervisor)
SupervisorChange ==
    /\ Idle
    /\ \E name \in Configured, st \in StateNames :
         /\ procs[name] # st
         /\ procs' = [procs EXCEPT ![name] = st]
    /\ UNCHANGED <<updVars, zkVars, diffVars, topoVars, call>>

NextProc == ControlProcess \/ GetProcessInfo \/ SupervisorChange \/ Reply

SpecProc == InitProc /\ [][NextProc]_vars

(***************************************************************************)
(* get_ad_info.  The supervisor lists the descriptors of all its processes *)
(* in an order of its own (order: the full names in that order).           *)
(***************************************************************************)
\* server.supervisor.getAllProcessInfo()
sup_getAllProcessInfo(ctx, order) ==
    LET c1 == Sent(ctx, <<"getAllProcessInfo">>)
    IN IF Fails(ctx) THEN Exc(c1, "Fault")
       ELSE Val(c1, [i \in DOMAIN order |->
                       [name |-> order[i][2], group |-> order[i][1],
                        statename |-> ctx.procs[order[i]]]])

\* the descriptors of every domain are kept
ad_process_info_unfiltered(all_process_info, ad_name) == all_process_info

\* list(filter(lambda x: x['group'] == ad_name, all_process_info))
ad_process_info(all_process_info, ad_name) ==
    SelectSeq(all_process_info, LAMBDA x : x.group = ad_name)

get_ad_info(ctx, isd_id, ad_id, order) ==
    LET ad_name == get_full_ad_name(isd_id, ad_id)
        all_process_info == sup_getAllProcessInfo(ctx, order)
    IN IF all_process_info.raised THEN all_process_info
       ELSE Val(all_process_info.ctx,
                response_success(ad_process_info(all_process_info.value, ad_name)))

\* the processes of three domains
AllProcs == {full_name(get_full_ad_name(1, 1), "bs1-1-1"),
             full_name(get_full_ad_name(1, 1), "ps1-1-1"),
             full_name(get_full_ad_name(1, 2), "bs1-2-1"),
             full_name(get_full_ad_name(2, 1), "bs2-1-1")}

InfoStates == {"RUNNING", "STOPPED"}

DomainIds == {1, 2}

\* the orders in which the supervisor may list the processes S
Orders(S) ==
    {o \in [1..Cardinality(S) -> S] : \A i, j \in DOMAIN o : i # j => o[i] # o[j]}

InitInfo ==
    /\ procs \in UNION {[S -> InfoStates] : S \in SUBSET AllProcs}
    /\ UpdOff
    /\ ZkOff
    /\ DiffOff
    /\ TopoOff
    /\ call = NoCall

GetAdInfo ==
    /\ Idle
    /\ \E isd_id \in DomainIds, ad_id \in DomainIds, fault_at \in 0..1 :
         \E order \in Orders(DOMAIN procs) :
            LET r == get_ad_info(Ctx(fault_at), isd_id, ad_id, order)
            IN /\ procs' = r.ctx.procs
               /\ call' = [method |-> "get_ad_info",
                           ad_name |-> get_full_ad_name(isd_id, ad_id),
                           order |-> order, fault_at |-> fault_at, pre |-> procs,
                           out |-> [raised |-> r.raised, value |-> r.value],
                           reqs |-> r.ctx.reqs]
               /\ UNCHANGED <<updVars, zkVars, diffVars, topoVars>>

NextInfo == GetAdInfo \/ Reply

SpecInfo == InitInfo /\ [][NextInfo]_vars

(***************************************************************************)
(* Topology documents.  A dictionary of elements is the sequence of its    *)
(* (name, element) items in the order of the dictionary; element names are *)
(* strings of decimal digits (code points 48..57).                         *)
(***************************************************************************)
\* the comparison of the names as strings
name_less_str(a, b) == str_less(a[1], b[1])

\* key_sort = lambda item: int(item[0]), compared
name_less(a, b) == int_of(a[1]) < int_of(b[1])

RECURSIVE insert_item(_, _)
insert_item(x, sorted_seq) ==
    IF sorted_seq = <<>> THEN <<x>>
    ELSE IF name_less(x, Head(sorted_seq)) THEN <<x>> \o sorted_seq
    ELSE <<Head(sorted_seq)>> \o insert_item(x, Tail(sorted_seq))

RECURSIVE sorted_items(_)
\* sorted(d.items(), key=key_sort)
sorted_items(items) ==
    IF items = <<>> THEN <<>>
    ELSE insert_item(Last(items), sorted_items(SubSeq(items, 1, Len(items) - 1)))

\* [t[1] for t in sorted_with_name]
values_of(items) == [i \in DOMAIN items |-> items[i][2]]

ScalarKeys == <<"ADID", "ISDID", "Core">>

ServerTypeKeys == <<"PathServers", "CertificateServers", "BeaconServers", "EdgeRouters">>

\* the nested fields without the neighbor type
NestedFields_NoType == <<"NeighborAD", "NeighborISD">>

NestedFields == <<"NeighborAD", "NeighborISD", "NeighborType">>

\* element_fields[server_type]: a plain key, or (field_name, nested_fields)
element_fields(server_type) ==
    IF server_type = "EdgeRouters"
    THEN << [nested |-> FALSE, key |-> "Addr"],
            [nested |-> TRUE, key |-> "Interface"] >>
    ELSE << [nested |-> FALSE, key |-> "Addr"] >>

RECURSIVE scalar_changes(_, _, _)
scalar_changes(current, remote, keys) ==
    IF keys = <<>> THEN <<>>
    ELSE (IF remote[Head(keys)] # current[Head(keys)]
          THEN << <<"values differ", Head(keys)>> >> ELSE <<>>)
         \o scalar_changes(current, remote, Tail(keys))

RECURSIVE nested_changes(_, _, _, _, _)
nested_changes(rs, cs, server_type, field_name, nested_fields) ==
    IF nested_fields = <<>> THEN <<>>
    ELSE LET field == Head(nested_fields)
             remote_value == rs[field_name][field]
             current_value == cs[field_name][field]
         IN (IF remote_value # current_value
             THEN << <<"differ for one of", field_name, field, server_type,
                       remote_value, current_value>> >>
             ELSE <<>>)
            \o nested_changes(rs, cs, server_type, field_name, Tail(nested_fields))

RECURSIVE field_changes(_, _, _, _)
field_changes(rs, cs, server_type, fields) ==
    IF fields = <<>> THEN <<>>
    ELSE LET key == Head(fields)
         IN (IF ~key.nested
             THEN (IF rs[key.key] # cs[key.key]
                   THEN << <<"values differ for one of", key.key, server_type,
                             cs[key.key], rs[key.key]>> >>
                   ELSE <<>>)
             ELSE nested_changes(rs, cs, server_type, key.key, NestedFields))
            \o field_changes(rs, cs, server_type, Tail(fields))

RECURSIVE zip_changes(_, _, _)
zip_changes(remote_servers, current_servers, server_type) ==
    IF remote_servers = <<>> \/ current_servers = <<>> THEN <<>>
    ELSE field_changes(Head(remote_servers), Head(current_servers), server_type,
                       element_fields(server_type))
         \o zip_changes(Tail(remote_servers), Tail(current_servers), server_type)

\* the remote elements taken in the order of the dictionary
remote_servers_unsorted(items) == values_of(items)

\* remote_servers: the remote elements sorted by the number in their name
remote_servers_of(items) == values_of(sorted_items(items))

\* the local elements taken in the order of the dictionary
current_servers_unsorted(items) == values_of(items)

\* current_servers: the local elements sorted by the number in their name
current_servers_of(items) == values_of(sorted_items(items))

\* the count entry is added and the fields are compared all the same
collection_changes_no_continue(current, remote, server_type) ==
    LET remote_servers == remote_servers_of(remote[server_type])
        current_servers == current_servers_of(current[server_type])
    IN (IF Len(remote_servers) # Len(current_servers)
        THEN << <<"Different number of servers", server_type>> >> ELSE <<>>)
       \o zip_changes(remote_servers, current_servers, server_type)

\* the count entry is added only when the remote side has more elements
collection_changes_remote_more(current, remote, server_type) ==
    LET remote_servers == remote_servers_of(remote[server_type])
        current_servers == current_servers_of(current[server_type])
    IN IF Len(remote_servers) > Len(current_servers)
       THEN << <<"Different number of servers", server_type>> >>
       ELSE zip_changes(remote_servers, current_servers, server_type)

collection_changes(current, remote, server_type) ==
    LET remote_servers == remote_servers_of(remote[server_type])
        current_servers == current_servers_of(current[server_type])
    IN IF Len(remote_servers) # Len(current_servers)
       THEN << <<"Different number of servers", server_type>> >>
       ELSE zip_changes(remote_servers, current_servers, server_type)

RECURSIVE all_collection_changes(_, _, _)
all_collection_changes(current, remote, types) ==
    IF types = <<>> THEN <<>>
    ELSE collection_changes(current, remote, Head(types))
         \o all_collection_changes(current, remote, Tail(types))

_get_changes(current, remote) ==
    scalar_changes(current, remote, ScalarKeys)
    \o all_collection_changes(current, remote, ServerTypeKeys)

\* if changes: status = 'CHANGED' else: status = 'OK'
status_of(changes) == IF changes # <<>> THEN "CHANGED" ELSE "OK"

\* compare_remote_topology, from the two topologies it obtains
compare_remote_topology(current, remote) ==
    IF remote = None
    THEN [status |-> "FAIL", changes |-> <<>>]
    ELSE LET changes == _get_changes(current, remote)
         IN [status |-> status_of(changes), changes |-> changes]

(***************************************************************************)
(* json.dump(topology, sort_keys=True) and json.loads: the text lists the  *)
(* items of every dictionary in the order of their keys as strings, and    *)
(* loading gives dictionaries in the order of the text.                    *)
(***************************************************************************)
RECURSIVE insert_by_str(_, _)
insert_by_str(x, sorted_seq) ==
    IF sorted_seq = <<>> THEN <<x>>
    ELSE IF name_less_str(x, Head(sorted_seq)) THEN <<x>> \o sorted_seq
    ELSE <<Head(sorted_seq)>> \o insert_by_str(x, Tail(sorted_seq))

RECURSIVE sort_keys(_)
sort_keys(items) ==
    IF items = <<>> THEN <<>>
    ELSE insert_by_str(Last(items), sort_keys(SubSeq(items, 1, Len(items) - 1)))

CollectionKeys == {"EdgeRouters", "PathServers", "CertificateServers",
                   "BeaconServers", "DNSServers"}

json_dump(topology) ==
    [json |-> [k \in DOMAIN topology |->
                 IF k \in CollectionKeys THEN sort_keys(topology[k])
                 ELSE topology[k]]]

json_loads(text) == text.json

(***************************************************************************)
(* Topology documents of the model                                         *)
(***************************************************************************)
MaxElems == 2

\* "1", "2", "10"
ElemNames == {<<49>>, <<50>>, <<49, 48>>}

Addrs == {"10.0.0.1", "10.0.0.2"}

Element(addr) == [AddrType |-> "IPv4", Addr |-> addr]

Router(addr, ntype, nisd, nad) ==
    [AddrType |-> "IPv4", Addr |-> addr,
     Interface |-> [NeighborType |-> ntype, NeighborISD |-> nisd,
                    NeighborAD |-> nad, IFID |-> 1]]

BaseRouter == Router("10.0.0.1", "PARENT", 1, 2)

\* the routers that differ from BaseRouter in at most one field
Routers ==
    {BaseRouter}
    \cup {Router("10.0.0.2", "PARENT", 1, 2), Router("10.0.0.1", "CHILD", 1, 2),
          Router("10.0.0.1", "PARENT", 2, 2), Router("10.0.0.1", "PARENT", 1, 3)}

\* the dictionaries with at most MaxElems items, in every order
Dicts(Values) ==
    UNION { {d \in [1..n -> ElemNames \X Values] :
               \A i, j \in 1..n : i # j => d[i][1] # d[j][1]} : n \in 0..MaxElems }

ServerDicts == Dicts({Element(a) : a \in Addrs})

\* routers are named "2" and "10"
RouterDicts == {d \in Dicts(Routers) : \A i \in DOMAIN d : d[i][1] # <<49>>}

BaseDoc ==
    [ISDID |-> 1, ADID |-> 1, Core |-> 0,
     EdgeRouters |-> << <<(<<50>>), BaseRouter>> >>,
     PathServers |-> << <<(<<49>>), Element("10.0.0.1")>> >>,
     CertificateServers |-> << <<(<<49>>), Element("10.0.0.1")>> >>,
     BeaconServers |-> << <<(<<49>>), Element("10.0.0.1")>> >>,
     DNSServers |-> << <<(<<49>>), Element("10.0.0.1")>> >>]

\* the documents that differ from BaseDoc in one key
Docs ==
    {BaseDoc}
    \cup {[BaseDoc EXCEPT !.ISDID = 2], [BaseDoc EXCEPT !.ADID = 2],
          [BaseDoc EXCEPT !.Core = 1]}
    \cup {[BaseDoc EXCEPT ![k] = d] :
            k \in CollectionKeys \ {"EdgeRouters"}, d \in ServerDicts}
    \cup {[BaseDoc EXCEPT !.EdgeRouters = d] : d \in RouterDicts}

InitDiff ==
    /\ current_topology \in Docs
    /\ remote_topology \in Docs \cup {None}
    /\ db = InitialDb
    /\ UpdOff
    /\ ZkOff
    /\ SupOff
    /\ TopoOff
    /\ call = NoCall

CompareRemoteTopology ==
    /\ Idle
    /\ LET r == compare_remote_topology(current_topology, remote_topology)
       IN call' = [method |-> "compare_remote_topology",
                   current |-> current_topology, remote |-> remote_topology,
                   status |-> r.status, changes |-> r.changes]
    /\ UNCHANGED <<updVars, zkVars, supVars, diffVars, topoVars>>

NextDiff == CompareRemoteTopology \/ Reply

SpecDiff == InitDiff /\ [][NextDiff]_vars

(***************************************************************************)
(* connect_new_ad.  The topology of the new AD and the updated local       *)
(* topology are computed by create_new_ad, and the package by              *)
(* prepare_package, outside these sources; db records which AD records     *)
(* exist, which ADs had their elements rewritten by fill_from_topology and *)
(* for which ADs a package was built.                                      *)
(***************************************************************************)
\* the topologies are never found inconsistent
topologies_consistent_always(local_topology, remote) == FALSE

\* if _get_changes(local_topology, remote)
topologies_inconsistent(local_topology, remote) ==
    _get_changes(local_topology, remote) # <<>>

Redirect(msg) == [kind |-> "redirect", error |-> msg]

Download(package) == [kind |-> "download", package |-> package]

\* AD.objects.create(isd=ad.isd): the next id
new_ad_id(database) ==
    (CHOOSE m \in database.ads : \A a \in database.ads : a <= m) + 1

connect_new_ad(database, pk, local_topology, remote) ==
    IF remote = None
    THEN [out |-> Returned(Redirect("Cannot get the remote topology")),
          db |-> database]
    ELSE IF topologies_inconsistent(local_topology, remote)
    THEN [out |-> Returned(Redirect("Topologies are inconsistent, please push or pull the topology")),
          db |-> database]
    ELSE LET new_ad == new_ad_id(database)
         IN [out |-> Returned(Download(new_ad)),
             db |-> [ads |-> database.ads \cup {new_ad},
                     refilled |-> database.refilled \cup {new_ad, pk},
                     packages |-> database.packages \cup {new_ad}]]

\* a request for the AD of the model, whose elements have not been rewritten
ConnectNewAd ==
    /\ Idle
    /\ db.refilled = {}
    /\ LET r == connect_new_ad(db, 1, current_topology, remote_topology)
       IN /\ db' = r.db
          /\ call' = [method |-> "connect_new_ad",
                      current |-> current_topology, remote |-> remote_topology,
                      pre |-> db, out |-> r.out]
    /\ UNCHANGED <<current_topology, remote_topology, updVars, zkVars, supVars,
                   topoVars>>

NextConnect == ConnectNewAd \/ Reply

SpecConnect == InitDiff /\ [][NextConnect]_vars

(***************************************************************************)
(* Pull of the remote topology: the view update_topology with              *)
(* _pull_topology, _update_from_remote_topology and AD.fill_from_topology. *)
(* The elements stored for the AD are a document (current_topology); a     *)
(* collection is the sequence of its rows (name, element) in the order of  *)
(* insertion.  All AD records of the model are in ISD 1.                   *)
(***************************************************************************)
\* the order of the loops of fill_from_topology
InsertOrder == <<"EdgeRouters", "BeaconServers", "CertificateServers",
                 "PathServers", "DNSServers">>

\* self.<type>_set.all().delete() for the five types
clear_elements(stored) ==
    [k \in DOMAIN stored |-> IF k \in CollectionKeys THEN <<>> ELSE stored[k]]

\* AD.objects.get(id=interface.neighbor_ad, isd=interface.neighbor_isd) finds
\* a record
neighbor_resolves(ads, element) ==
    element.Interface.NeighborISD = 1 /\ element.Interface.NeighborAD \in ads

\* unique_together = (("ad", "addr"),): the row can be saved
unique_addr(rows, element) == \A i \in DOMAIN rows : rows[i][2].Addr # element.Addr

\* except IntegrityError: pass
except_IntegrityError == "pass"

\* the loops over the elements of one type, then over the following types;
\* how: "done", "pass" (an IntegrityError was caught) or the exception raised
RECURSIVE save_all(_, _, _, _)
save_all(stored, ads, topology, types) ==
    IF types = <<>> THEN [doc |-> stored, how |-> "done"]
    ELSE LET k == Head(types)
         IN IF topology[k] = <<>>
            THEN save_all(stored, ads, topology, Tail(types))
            ELSE LET row == Head(topology[k])
                     rest == [topology EXCEPT ![k] = Tail(@)]
                 IN IF k = "EdgeRouters" /\ ~neighbor_resolves(ads, row[2])
                    THEN [doc |-> stored, how |-> "DoesNotExist"]
                    ELSE IF ~unique_addr(stored[k], row[2])
                    THEN [doc |-> stored, how |-> except_IntegrityError]
                    ELSE save_all([stored EXCEPT ![k] = Append(@, row)],
                                  ads, rest, types)

fill_from_topology(stored, ads, topology, clear) ==
    save_all(IF clear THEN clear_elements(stored) ELSE stored, ads, topology,
             InsertOrder)

\* The view runs in transaction.atomic: an exception that leaves it rolls the
\* deletions and insertions back.  After a caught IntegrityError the
\* transaction is committed as it is or rolled back, depending on the
\* database layer (commits).
_update_from_remote_topology(stored, ads, remote, commits) ==
    IF remote = None
    THEN [out |-> Raised("TypeError"), doc |-> stored]
    ELSE LET r == fill_from_topology(stored, ads, remote, TRUE)
         IN IF r.how = "done"
            THEN [out |-> Returned(Redirect("")), doc |-> r.doc]
            ELSE IF r.how = "pass"
            THEN [out |-> Returned(Redirect("")),
                  doc |-> IF commits THEN r.doc ELSE stored]
            ELSE [out |-> Raised(r.how), doc |-> stored]

\* the elements stored before the pull
StoredDocs ==
    {BaseDoc,
     [BaseDoc EXCEPT !.PathServers = << <<(<<50>>), Element("10.0.0.2")>> >>],
     [BaseDoc EXCEPT !.EdgeRouters = <<>>, !.DNSServers = <<>>]}

AdSets == {{1, 2}, {1, 2, 3}}

InitApply ==
    /\ current_topology \in StoredDocs
    /\ remote_topology \in Docs \cup {None}
    /\ db \in {[InitialDb EXCEPT !.ads = S] : S \in AdSets}
    /\ UpdOff
    /\ ZkOff
    /\ SupOff
    /\ TopoOff
    /\ call = NoCall

UpdateFromRemoteTopology ==
    /\ Idle
    /\ \E commits \in BOOLEAN :
         LET r == _update_from_remote_topology(current_topology, db.ads,
                                              remote_topology, commits)
         IN /\ current_topology' = r.doc
            /\ call' = [method |-> "update_from_remote_topology",
                        stored |-> current_topology, remote |-> remote_topology,
                        ads |-> db.ads, commits |-> commits, out |-> r.out]
    /\ UNCHANGED <<remote_topology, db, updVars, zkVars, supVars, topoVars>>

NextApply == UpdateFromRemoteTopology \/ Reply

SpecApply == InitApply /\ [][NextApply]_vars

(***************************************************************************)
(* The topology file of the daemon: update_topology, get_topology and the  *)
(* restart thread                                                          *)
(***************************************************************************)
\* the thread is created and never started
restart_supervisor_not_started(threads) == threads

\* restart_supervisor_async: threading.Thread(...).start()
restart_supervisor_async(threads) == threads + 1

\* the file is written whether it exists or not
update_topology_creates(file, threads, topology) ==
    [out |-> Returned(response_success("Topology file is successfully updated")),
     file |-> json_dump(topology),
     threads |-> restart_supervisor_async(threads)]

\* file: the topology file before the call; threads: the restart threads
\* started so far
update_topology(file, threads, topology) ==
    IF file = NoFile
    THEN [out |-> Returned(response_failure("No AD topology found")),
          file |-> file, threads |-> threads]
    ELSE [out |-> Returned(response_success("Topology file is successfully updated")),
          file |-> json_dump(topology),
          threads |-> restart_supervisor_async(threads)]

\* the file is read without the test of os.path.isfile
get_topology_unchecked(file) == Returned(response_success(file))

get_topology(file) ==
    IF file # NoFile THEN Returned(response_success(file))
    ELSE Returned(response_failure("No topology file found"))

MaxPushes == 2

\* the documents pushed: BaseDoc with any dictionary of beacon servers
TopoDocs == {[BaseDoc EXCEPT !.BeaconServers = d] : d \in ServerDicts}

InitTopo ==
    /\ topo_file \in {NoFile} \cup {json_dump(d) : d \in TopoDocs}
    /\ scheduled = 0
    /\ restarted = 0
    /\ pushed = None
    /\ writer = NoWriter
    /\ UpdOff
    /\ ZkOff
    /\ SupOff
    /\ DiffOff
    /\ call = NoCall

UpdateTopology ==
    /\ Idle
    /\ scheduled < MaxPushes
    /\ \E topology \in TopoDocs :
         LET r == update_topology(topo_file, scheduled, topology)
         IN /\ topo_file' = r.file
            /\ scheduled' = r.threads
            /\ pushed' = IF is_success(r.out.value) THEN topology ELSE pushed
            /\ call' = [method |-> "update_topology", topology |-> topology,
                        pre |-> topo_file, threads_before |-> scheduled,
                        out |-> r.out]
    /\ UNCHANGED <<restarted, writer, updVars, zkVars, supVars, diffVars>>

GetTopology ==
    /\ Idle
    /\ call' = [method |-> "get_topology", topology |-> None,
                pre |-> topo_file, threads_before |-> scheduled,
                out |-> get_topology(topo_file)]
    /\ UNCHANGED <<topoVars, updVars, zkVars, supVars, diffVars>>

\* _restart_supervisor_wait: a started thread sleeps, then restarts the
\* supervisor
RestartSupervisorWait ==
    /\ restarted < scheduled
    /\ restarted' = restarted + 1
    /\ UNCHANGED <<topo_file, scheduled, pushed, writer, updVars, zkVars, supVars,
                   diffVars, call>>

NextTopo == UpdateTopology \/ GetTopology \/ RestartSupervisorWait \/ Reply

SpecTopo == InitTopo /\ [][NextTopo]_vars

(***************************************************************************)
(* update_topology step by step, with get_topology served on another      *)
(* connection at the same time.  open(topo_path, 'w') truncates the file   *)
(* in place and json.dump writes the text to it in pieces; the text is     *)
(* taken in Chunks pieces.                                                 *)
(***************************************************************************)
Chunks == 2

\* the text of a file that was truncated and has nothing written yet
EmptyText == [prefix |-> 0]

\* the file after n of the pieces of text have been written
written_text(text, n) ==
    IF n = 0 THEN EmptyText
    ELSE IF n = Chunks THEN text
    ELSE [prefix |-> n, of |-> text]

\* the documents pushed: BaseDoc with at most one beacon server
ConcDocs == {d \in TopoDocs : Len(d.BeaconServers) <= 1}

InitConc ==
    /\ topo_file \in {NoFile} \cup {json_dump(d) : d \in ConcDocs}
    /\ scheduled = 0
    /\ restarted = 0
    /\ pushed = None
    /\ writer = NoWriter
    /\ UpdOff
    /\ ZkOff
    /\ SupOff
    /\ DiffOff
    /\ call = NoCall

\* update_topology is called: if not os.path.isfile(topo_path)
BeginUpdate ==
    /\ writer = NoWriter
    /\ scheduled < MaxPushes
    /\ \E topology \in ConcDocs :
         writer' = [pc |-> IF topo_file = NoFile THEN "return" ELSE "open",
                    topology |-> topology, written |-> 0,
                    pre |-> topo_file, threads_before |-> scheduled,
                    out |-> IF topo_file = NoFile
                            THEN Returned(response_failure("No AD topology found"))
                            ELSE None]
    /\ UNCHANGED <<topo_file, scheduled, restarted, pushed, updVars, zkVars,
                   supVars, diffVars, call>>

\* with open(topo_path, 'w') as topo_fh
OpenTruncate ==
    /\ writer.pc = "open"
    /\ topo_file' = written_text(json_dump(writer.topology), 0)
    /\ writer' = [writer EXCEPT !.pc = "write"]
    /\ UNCHANGED <<scheduled, restarted, pushed, updVars, zkVars, supVars,
                   diffVars, call>>

\* json.dump(topology, topo_fh, ...): one more piece reaches the file
WriteChunk ==
    /\ writer.pc = "write"
    /\ writer.written < Chunks
    /\ topo_file' = written_text(json_dump(writer.topology), writer.written + 1)
    /\ writer' = [writer EXCEPT !.written = @ + 1]
    /\ UNCHANGED <<scheduled, restarted, pushed, updVars, zkVars, supVars,
                   diffVars, call>>

\* the file is closed; write_derivatives; restart_supervisor_async()
FinishUpdate ==
    /\ writer.pc = "write"
    /\ writer.written = Chunks
    /\ scheduled' = restart_supervisor_async(scheduled)
    /\ pushed' = writer.topology
    /\ writer' = [writer EXCEPT
                    !.pc = "return",
                    !.out = Returned(response_success("Topology file is successfully updated"))]
    /\ UNCHANGED <<topo_file, restarted, updVars, zkVars, supVars, diffVars, call>>

\* the response of update_topology is returned
ReturnUpdate ==
    /\ writer.pc = "return"
    /\ writer' = NoWriter
    /\ UNCHANGED <<topo_file, scheduled, restarted, pushed, updVars, zkVars,
                   supVars, diffVars, call>>

NextConc ==
    \/ BeginUpdate
    \/ OpenTruncate
    \/ WriteChunk
    \/ FinishUpdate
    \/ ReturnUpdate
    \/ GetTopology
    \/ RestartSupervisorWait
    \/ Reply

SpecConc == InitConc /\ [][NextConc]_vars

(***************************************************************************)
(* Two update_topology calls served at the same time.  Each call opens the *)
(* file with mode 'w' (truncation) and has its own position in the file:   *)
(* its n-th piece of text is written at the place of the n-th piece.  The  *)
(* file is the sequence of the pieces it holds; the pieces of the texts    *)
(* are taken to be of equal length.  Each caller makes one call.           *)
(***************************************************************************)
Callers == {1, 2}

\* bytes of a place that was never written after the truncation
Hole == [hole |-> TRUE]

\* the n-th piece of a text
piece_of(text, n) == [of |-> text, n |-> n]

\* the file that holds a text in full
pieces_of(text) == [pieces |-> [n \in 1..Chunks |-> piece_of(text, n)]]

\* write of a piece at the place n of the file
write_at(file, n, piece) ==
    LET len == IF Len(file.pieces) < n THEN n ELSE Len(file.pieces)
    IN [pieces |-> [i \in 1..len |-> IF i = n THEN piece
                                     ELSE IF i <= Len(file.pieces)
                                     THEN file.pieces[i] ELSE Hole]]

InitRace ==
    /\ topo_file \in {NoFile} \cup {pieces_of(json_dump(d)) : d \in ConcDocs}
    /\ scheduled = 0
    /\ restarted = 0
    /\ pushed = None
    /\ writer = [w \in Callers |-> NoWriter]
    /\ UpdOff
    /\ ZkOff
    /\ SupOff
    /\ DiffOff
    /\ call = NoCall

\* update_topology is called: if not os.path.isfile(topo_path)
BeginRace(w) ==
    /\ writer[w] = NoWriter
    /\ \E topology \in ConcDocs :
         writer' = [writer EXCEPT ![w] =
                      [pc |-> IF topo_file = NoFile THEN "return" ELSE "open",
                       topology |-> topology, written |-> 0,
                       pre |-> topo_file, threads_before |-> scheduled,
                       out |-> IF topo_file = NoFile
                               THEN Returned(response_failure("No AD topology found"))
                               ELSE None]]
    /\ UNCHANGED <<topo_file, scheduled, restarted, pushed, updVars, zkVars,
                   supVars, diffVars, call>>

\* with open(topo_path, 'w') as topo_fh
OpenRace(w) ==
    /\ writer[w].pc = "open"
    /\ topo_file' = [pieces |-> <<>>]
    /\ writer' = [writer EXCEPT ![w].pc = "write"]
    /\ UNCHANGED <<scheduled, restarted, pushed, updVars, zkVars, supVars,
                   diffVars, call>>

\* json.dump(topology, topo_fh, ...): one more piece reaches the file
WriteRace(w) ==
    /\ writer[w].pc = "write"
    /\ writer[w].written < Chunks
    /\ topo_file' = write_at(topo_file, writer[w].written + 1,
                             piece_of(json_dump(writer[w].topology),
                                      writer[w].written + 1))
    /\ writer' = [writer EXCEPT ![w].written = @ + 1]
    /\ UNCHANGED <<scheduled, restarted, pushed, updVars, zkVars, supVars,
                   diffVars, call>>

\* the file is closed; write_derivatives; restart_supervisor_async()
FinishRace(w) ==
    /\ writer[w].pc = "write"
    /\ writer[w].written = Chunks
    /\ scheduled' = restart_supervisor_async(scheduled)
    /\ pushed' = writer[w].topology
    /\ writer' = [writer EXCEPT
                    ![w].pc = "return",
                    ![w].out = Returned(response_success("Topology file is successfully updated"))]
    /\ UNCHANGED <<topo_file, restarted, updVars, zkVars, supVars, diffVars, call>>

\* the response of update_topology is returned
ReturnRace(w) ==
    /\ writer[w].pc = "return"
    /\ writer' = [writer EXCEPT ![w].pc = "returned"]
    /\ UNCHANGED <<topo_file, scheduled, restarted, pushed, updVars, zkVars,
                   supVars, diffVars, call>>

NextRace ==
    \/ \E w \in Callers : BeginRace(w)
    \/ \E w \in Callers : OpenRace(w)
    \/ \E w \in Callers : WriteRace(w)
    \/ \E w \in Callers : FinishRace(w)
    \/ \E w \in Callers : ReturnRace(w)
    \/ RestartSupervisorWait

SpecRace == InitRace /\ [][NextRace]_vars

(***************************************************************************)
(* Two control_process calls (START or STOP) served at the same time.      *)
(* start_process and stop_process first read the state of the process      *)
(* (get_process_state) and then send their request to the supervisor; the  *)
(* other call can run between the two.  Each caller makes one call.        *)
(***************************************************************************)
NoCtl == [pc |-> "idle"]

\* the context of a step of the call of caller w
StepCtx(w) == [procs |-> procs, reqs |-> call[w].reqs, fault_at |-> 0]

\* the request of start_process or stop_process for the command
sup_request(ctx, command, name) ==
    IF command = "START" THEN sup_startProcess(ctx, name)
    ELSE sup_stopProcess(ctx, name)

\* start_process: state in ['RUNNING', 'STARTING'];
\* stop_process: state not in ['RUNNING', 'STARTING']
nothing_to_do(command, state) ==
    IF command = "START" THEN state \in {"RUNNING", "STARTING"}
    ELSE state \notin {"RUNNING", "STARTING"}

InitCtl ==
    /\ procs \in [Configured -> StateNames]
    /\ UpdOff
    /\ ZkOff
    /\ DiffOff
    /\ TopoOff
    /\ call = [w \in Callers |-> NoCtl]

\* control_process is called with START or STOP
BeginCtl(w) ==
    /\ call[w] = NoCtl
    /\ \E process_name \in {"bs1-1-1", "ps1-1-1"}, command \in {"START", "STOP"} :
         call' = [call EXCEPT ![w] =
                    [pc |-> "state", command |-> command,
                     name |-> full_name(get_full_ad_name(1, 1), process_name),
                     pre |-> procs, reqs |-> <<>>, out |-> None]]
    /\ UNCHANGED <<procs, updVars, zkVars, diffVars, topoVars>>

\* self.get_process_state(process_name) and the test of the state
CheckStateCtl(w) ==
    /\ call[w].pc = "state"
    /\ LET st == get_process_state(StepCtx(w), call[w].name)
       IN call' = [call EXCEPT ![w] =
                     IF st.raised
                     THEN [@ EXCEPT !.pc = "return", !.reqs = st.ctx.reqs,
                                    !.out = Raised(st.value)]
                     ELSE IF nothing_to_do(@.command, st.value)
                     THEN [@ EXCEPT !.pc = "return", !.reqs = st.ctx.reqs,
                                    !.out = Returned(response_success(TRUE))]
                     ELSE [@ EXCEPT !.pc = "request", !.reqs = st.ctx.reqs]]
    /\ UNCHANGED <<procs, updVars, zkVars, diffVars, topoVars>>

\* server.supervisor.startProcess(process_name) or stopProcess(process_name)
RequestCtl(w) ==
    /\ call[w].pc = "request"
    /\ LET r == sup_request(StepCtx(w), call[w].command, call[w].name)
       IN /\ procs' = r.ctx.procs
          /\ call' = [call EXCEPT ![w] =
                        [@ EXCEPT !.pc = "return", !.reqs = r.ctx.reqs,
                                  !.out = IF r.raised THEN Raised(r.value)
                                          ELSE Returned(response_success(r.value))]]
    /\ UNCHANGED <<updVars, zkVars, diffVars, topoVars>>

\* the outcome of control_process leaves the handler
ReturnCtl(w) ==
    /\ call[w].pc = "return"
    /\ call' = [call EXCEPT ![w].pc = "returned"]
    /\ UNCHANGED <<procs, updVars, zkVars, diffVars, topoVars>>

NextCtl ==
    \/ \E w \in Callers : BeginCtl(w)
    \/ \E w \in Callers : CheckStateCtl(w)
    \/ \E w \in Callers : RequestCtl(w)
    \/ \E w \in Callers : ReturnCtl(w)

SpecCtl == InitCtl /\ [][NextCtl]_vars

(***************************************************************************)
(* Properties of send_update                                               *)
(***************************************************************************)
IsEnvelope(out) == ~out.raised

IsFailure(out) ==
    /\ ~out.raised
    /\ ~is_success(out.value)
    /\ Len(out.value[2]) >= 1

IsSuccess(out) == ~out.raised /\ is_success(out.value)

UpdateCall == call.method = "send_update"

Decodes == b64decode(call.args.data) # B64Error

DigestEqual ==
    Decodes /\ sha1_hexdigest(b64decode(call.args.data)) = call.args.digest

DigestDiffers ==
    Decodes /\ sha1_hexdigest(b64decode(call.args.data)) # call.args.digest

Rejected ==
    /\ IsFailure(call.out)
    /\ fs = call.pre
    /\ call.written = <<>>
    /\ call.spawned = <<>>

\* the name ends in a file name and the installer can be launched
Storable ==
    /\ ~IsDirSeg(Last(call.args.name))
    /\ call.popen_ok

InsideStaging(p) == Len(p) = 3 /\ SubSeq(p, 1, 2) = StagingDir

\* C2: an accepted payload is stored at <staging>/<last component of the
\* name> and nowhere else, and after any sequence of calls every file outside
\* the staging directory is as it was before the first call.
C2_StoredInStaging ==
    /\ \A p \in DOMAIN fs.files :
          \/ InsideStaging(p)
          \/ (p = <<"etc", "passwd">> /\ fs.files[p] = <<0>>)
    /\ fs.dirs \subseteq BaseDirs \cup {StagingDir}
    /\ UpdateCall =>
          \A i \in 1..Len(call.written) :
              /\ call.written[i][1] = Append(StagingDir, Last(call.args.name))
              /\ call.written[i][2] = b64decode(call.args.data)
              /\ IsSuccess(call.out) \/ ~call.popen_ok

\* "../../etc/passwd" was accepted and stored as <staging>/passwd
C2_Witness_Traversal ==
    /\ UpdateCall
    /\ call.args.name = <<"..", "..", "etc", "passwd">>
    /\ IsSuccess(call.out)
    /\ call.written = << <<Append(StagingDir, "passwd"), b64decode(call.args.data)>> >>
    /\ fs.files[<<"etc", "passwd">>] = <<0>>

\* the place and the path of the stored archive
ArchivePlace == Append(StagingDir, Last(call.args.name))

ArchivePath == path_join(UPDATE_DIR_PATH, basename(call.args.name))

\* C29: an accepted send_update call has passed the digest check, the
\* staging directory exists, the decoded bytes are written to the archive
\* once, the installer is launched once, after the archive is complete, with
\* the path of the archive and the target directory, and the call does not
\* wait for it; a call that fails the digest check has done none of the
\* later steps.
C29_StepOrder ==
    UpdateCall =>
        /\ IsSuccess(call.out) =>
              /\ DigestEqual
              /\ StagingDir \in fs.dirs
              /\ call.written = << <<ArchivePlace, b64decode(call.args.data)>> >>
              /\ call.spawned = << <<ArchivePath, PROJECT_ROOT>> >>
              /\ call.launch_fs # None
              /\ StagingDir \in call.launch_fs.dirs
              /\ ArchivePlace \in DOMAIN call.launch_fs.files
              /\ call.launch_fs.files[ArchivePlace] = b64decode(call.args.data)
              /\ ~call.waited
        /\ DigestDiffers => Rejected
        /\ Len(call.spawned) <= 1
        /\ call.spawned # <<>> => Len(call.written) = 1

\* an accepted call that found no staging directory: the directory was
\* created, the archive written and the installer launched on it
C29_Witness_Fresh ==
    /\ UpdateCall
    /\ IsSuccess(call.out)
    /\ StagingDir \notin call.pre.dirs
    /\ StagingDir \in fs.dirs
    /\ call.args.name = <<"passwd">>
    /\ call.spawned = << <<(<<"", "scion", "updates", "passwd">>), PROJECT_ROOT>> >>
    /\ call.launch_fs.files[Append(StagingDir, "passwd")] = <<65, 66>>

(***************************************************************************)
(* Properties of the handlers' outcomes                                    *)
(***************************************************************************)
\* a request to the supervisor failed during the call
SupervisorFault == call.fault_at # 0 /\ Len(call.reqs) >= call.fault_at

\* C3 as stated: whatever fails, the call returns an envelope, and a fault
\* of the supervisor becomes a failure envelope with an error string.
C3_NoExceptionCrosses ==
    call.method \in {"control_process", "get_process_info"} =>
        /\ IsEnvelope(call.out)
        /\ SupervisorFault => IsFailure(call.out)

(***************************************************************************)
(* Properties of get_master_id                                             *)
(***************************************************************************)
MasterCall == call.method = "get_master_id"

Range(f) == {f[i] : i \in DOMAIN f}

\* C4 as stated: the selected child is the one whose suffix is numerically
\* smallest, whatever the listing order and the number of digits.
C4_NumericallySmallest ==
    (MasterCall /\ call.holder # <<>>) =>
        \A c \in Range(call.listing) :
            int_of(get_id(call.holder)) <= int_of(get_id(c))

\* What the code does select: the suffix that is smallest as a string, which
\* is the numerically smallest one when all suffixes have the same length.
C4_FixedWidth ==
    (MasterCall /\ call.holder # <<>>) =>
        /\ \A c \in Range(call.listing) : ~str_less(get_id(c), get_id(call.holder))
        /\ (\A c \in Range(call.listing) : Len(get_id(c)) = Len(get_id(call.holder)))
              => \A c \in Range(call.listing) :
                    int_of(get_id(call.holder)) <= int_of(get_id(c))

\* the call reached get_children on a lock path that exists and is empty
EmptyLock ==
    /\ MasterCall
    /\ call.server_type \in {"bs", "cs", "ps"}
    /\ call.fault \notin {"start", "get_children"}
    /\ lock_path(1, 1, call.server_type) \in DOMAIN call.pre
    /\ call.pre[lock_path(1, 1, call.server_type)] = {}

ErrorIs(out, msg) == IsFailure(out) /\ out.value[2][1] = msg

\* C5: a lock path without children gives the "No lock contenders found"
\* failure, no other call gives it (a missing node and the other faults give
\* other outcomes), and the call reads no child.
C5_NoContenders ==
    MasterCall =>
        /\ EmptyLock <=> ErrorIs(call.out, "No lock contenders found")
        /\ EmptyLock => \A i \in DOMAIN call.ops : call.ops[i] # "get"

C5_Witness_Empty ==
    /\ EmptyLock
    /\ call.ops = <<"KazooClient", "start", "get_children", "stop">>
    /\ ErrorIs(call.out, "No lock contenders found")

\* C6: no session is open after a call, whatever its outcome; a call that
\* starts a session does so on a client it created and stops it last.
C6_SessionClosed ==
    /\ sessions = 0
    /\ MasterCall =>
          \/ call.ops = <<>>
          \/ /\ call.ops[1] = "KazooClient"
             /\ Last(call.ops) = "stop"
             /\ Cardinality({i \in DOMAIN call.ops :
                               call.ops[i] \in {"KazooClient", "stop"}}) = 2

\* the holder's data did not parse, and the session was closed all the same
C6_Witness_ParseFault ==
    /\ MasterCall
    /\ call.out = Raised("ValueError")
    /\ call.ops = <<"KazooClient", "start", "get_children", "get", "stop">>
    /\ sessions = 0

\* the coordination service answered "no node": the lock path is absent at
\* get_children, or the holder's node is gone at get
NoNode ==
    /\ MasterCall
    /\ call.server_type \in {"bs", "cs", "ps"}
    /\ call.fault \notin {"start", "get_children"}
    /\ \/ lock_path(1, 1, call.server_type) \notin DOMAIN call.pre
       \/ call.listing # <<>> /\ call.fault = "get_nonode"

\* C20: every "no node" answer, at the listing or at the read, gives the
\* failure "No lock data found", which no other call gives (so it differs
\* from "no contenders" and from every other fault), and the session is
\* closed.
C20_NoNodeFailure ==
    MasterCall =>
        /\ NoNode <=> ErrorIs(call.out, "No lock data found")
        /\ NoNode => ~ErrorIs(call.out, "No lock contenders found")
        /\ NoNode => (sessions = 0 /\ Last(call.ops) = "stop")

\* the winning child is gone between the listing and the read
C20_Witness_Vanished ==
    /\ NoNode
    /\ call.listing # <<>>
    /\ call.ops = <<"KazooClient", "start", "get_children", "get", "stop">>
    /\ ErrorIs(call.out, "No lock data found")
    /\ sessions = 0

\* the call read the value of the selected child
HolderRead == MasterCall /\ call.holder # <<>> /\ call.fault = "none"

\* the NUL-delimited fields of the value of the selected child
HolderFields == split_byte(LockContents(call.holder), 0, <<>>, <<>>)

\* C21 as stated: whatever the number of NUL-delimited fields of the value,
\* the call returns its first field in a success envelope.
C21_FirstField ==
    HolderRead => call.out = Returned(response_success(HolderFields[1]))

\* what does hold: the first field is returned when the value has exactly
\* three fields, and the call raises ValueError otherwise
C21_ThreeFields ==
    HolderRead =>
        IF Len(HolderFields) = 3
        THEN call.out = Returned(response_success(HolderFields[1]))
        ELSE call.out = Raised("ValueError")

\* C22: for a server type other than bs, cs and ps the call returns a failure
\* envelope, creates no client, opens no session and sends no request.
C22_ServerTypeFirst ==
    (MasterCall /\ call.server_type \notin {"bs", "cs", "ps"}) =>
        /\ ErrorIs(call.out, "Invalid server type")
        /\ call.ops = <<>>
        /\ sessions = 0

\* the server type ds, asked while the service would fail to start a session
C22_Witness_Ds ==
    /\ MasterCall
    /\ call.server_type = "ds"
    /\ call.fault = "start"
    /\ call.ops = <<>>
    /\ IsFailure(call.out)

(***************************************************************************)
(* Properties of control_process                                           *)
(***************************************************************************)
RestartOfStopped ==
    /\ call.method = "control_process"
    /\ call.command = "RESTART"
    /\ call.name \in DOMAIN call.pre
    /\ call.pre[call.name] = "STOPPED"

\* on a STOPPED process the requests are: state, state, startProcess
StartStepFailed == call.fault_at \in {2, 3}

StartStepDone == call.fault_at \notin {1, 2, 3}

StartRequests == {i \in DOMAIN call.reqs : call.reqs[i][1] = "startProcess"}

\* C7 as stated: RESTART of a STOPPED process leaves it RUNNING when the
\* start step succeeds; when the start step fails the process stays STOPPED,
\* the call returns (an envelope), and no second start is attempted.
C7_RestartStopped ==
    RestartOfStopped =>
        /\ StartStepDone => (procs[call.name] = "RUNNING" /\ IsSuccess(call.out))
        /\ StartStepFailed =>
              /\ procs[call.name] = "STOPPED"
              /\ IsEnvelope(call.out)
              /\ Cardinality(StartRequests) <= 1

\* what does hold: the state after the call, and a single start request
C7_StateOnly ==
    RestartOfStopped =>
        /\ StartStepDone => (procs[call.name] = "RUNNING" /\ IsSuccess(call.out))
        /\ StartStepFailed =>
              /\ procs[call.name] = "STOPPED"
              /\ call.out.raised
              /\ Cardinality(StartRequests) <= 1

StopRequests == {i \in DOMAIN call.reqs : call.reqs[i][1] = "stopProcess"}

\* the state that get_process_state is to give: the supervisor's state name,
\* or "None" for a process the supervisor does not know
StateBefore ==
    IF call.name \in DOMAIN call.pre THEN call.pre[call.name] ELSE "None"

\* a call of the command with every request to the supervisor answered
Answered(command) ==
    /\ call.method = "control_process"
    /\ call.command = command
    /\ call.fault_at = 0

\* C11 as stated: start_process sends no start request and returns success
\* when the state is RUNNING or STARTING, and sends exactly one start request
\* in every other state, the process that is not found included.
C11_StartIdempotent ==
    Answered("START") =>
        IF StateBefore \in {"RUNNING", "STARTING"}
        THEN /\ StartRequests = {}
             /\ call.out = Returned(response_success(TRUE))
             /\ procs = call.pre
        ELSE Cardinality(StartRequests) = 1

\* what does hold: the same for the processes the supervisor knows
C11_KnownProcess ==
    (Answered("START") /\ call.name \in DOMAIN call.pre) =>
        IF StateBefore \in {"RUNNING", "STARTING"}
        THEN /\ StartRequests = {}
             /\ call.out = Returned(response_success(TRUE))
             /\ procs = call.pre
        ELSE Cardinality(StartRequests) = 1

\* C12 as stated: stop_process sends no stop request and returns success when
\* the state is neither RUNNING nor STARTING (a process that is not found
\* included), and sends exactly one stop request when it is.
C12_StopSymmetric ==
    Answered("STOP") =>
        IF StateBefore \notin {"RUNNING", "STARTING"}
        THEN /\ StopRequests = {}
             /\ call.out = Returned(response_success(TRUE))
             /\ procs = call.pre
        ELSE Cardinality(StopRequests) = 1

\* what does hold: the same for the processes the supervisor knows
C12_KnownProcess ==
    (Answered("STOP") /\ call.name \in DOMAIN call.pre) =>
        IF StateBefore \notin {"RUNNING", "STARTING"}
        THEN /\ StopRequests = {}
             /\ call.out = Returned(response_success(TRUE))
             /\ procs = call.pre
        ELSE Cardinality(StopRequests) = 1

\* C13: a command other than START, STOP and RESTART gives a failure
\* envelope, no request is sent to the supervisor and no process changes
\* state.
C13_InvalidCommand ==
    (call.method = "control_process"
        /\ call.command \notin {"START", "STOP", "RESTART"}) =>
        /\ IsFailure(call.out)
        /\ call.reqs = <<>>
        /\ procs = call.pre

\* the command KILL on a running process
C13_Witness_Kill ==
    /\ call.method = "control_process"
    /\ call.command = "KILL"
    /\ call.name \in DOMAIN call.pre
    /\ call.pre[call.name] = "RUNNING"
    /\ procs[call.name] = "RUNNING"
    /\ IsFailure(call.out)

\* the place of the process of descriptor d in the supervisor's list
PlaceOf(d) ==
    CHOOSE i \in DOMAIN call.order : call.order[i] = full_name(d.group, d.name)

\* C19: get_ad_info, with the supervisor answering, returns a success
\* envelope whose list holds the descriptor of every process of the requested
\* domain, once, with its state, none of another domain, in the order of the
\* supervisor's list.
C19_AdInfoFiltered ==
    (call.method = "get_ad_info" /\ call.fault_at = 0) =>
        /\ IsSuccess(call.out)
        /\ procs = call.pre
        /\ LET list == call.out.value[2]
           IN /\ \A i \in DOMAIN list :
                    /\ list[i].group = call.ad_name
                    /\ full_name(list[i].group, list[i].name) \in DOMAIN call.pre
                    /\ list[i].statename
                         = call.pre[full_name(list[i].group, list[i].name)]
              /\ {full_name(list[i].group, list[i].name) : i \in DOMAIN list}
                   = {n \in DOMAIN call.pre : n[1] = call.ad_name}
              /\ Len(list) = Cardinality({n \in DOMAIN call.pre : n[1] = call.ad_name})
              /\ \A i, j \in DOMAIN list :
                    i < j => PlaceOf(list[i]) < PlaceOf(list[j])

\* two processes of the domain are listed with one of another domain between
\* them
C19_Witness_Interleaved ==
    /\ call.method = "get_ad_info"
    /\ call.fault_at = 0
    /\ call.ad_name = get_full_ad_name(1, 1)
    /\ Len(call.order) >= 3
    /\ call.order[1][1] = call.ad_name
    /\ call.order[2][1] # call.ad_name
    /\ call.order[3][1] = call.ad_name
    /\ Len(call.out.value[2]) = 2

(***************************************************************************)
(* Properties of the topology push and of the diff                         *)
(***************************************************************************)
\* two dictionaries with the same items, in whatever order
SameItems(a, b) == Range(a) = Range(b) /\ Len(a) = Len(b)

\* dict equality of two topology documents
SameDocument(a, b) ==
    /\ \A k \in {"ISDID", "ADID", "Core"} : a[k] = b[k]
    /\ \A k \in CollectionKeys : SameItems(a[k], b[k])

\* an update_topology call on an existing file that stores one beacon server
\* fewer than the pushed document has
PushOneMoreBeacon ==
    /\ call.method = "update_topology"
    /\ call.pre # NoFile
    /\ Len(json_loads(call.pre).BeaconServers) + 1 = Len(call.topology.BeaconServers)

\* C8: such a push stores the pushed document, the diff of the stored document
\* and the pushed one is then empty (in both directions), and the call
\* starts exactly one restart thread.
C8_PushThenDiffEmpty ==
    PushOneMoreBeacon =>
        /\ IsSuccess(call.out)
        /\ topo_file = json_dump(call.topology)
        /\ SameDocument(json_loads(topo_file), call.topology)
        /\ _get_changes(call.topology, json_loads(topo_file)) = <<>>
        /\ _get_changes(json_loads(topo_file), call.topology) = <<>>
        /\ scheduled = call.threads_before + 1

\* a push of beacon servers "2" and "10", which the file lists as "10", "2"
C8_Witness_Push ==
    /\ PushOneMoreBeacon
    /\ Len(call.topology.BeaconServers) = 2
    /\ call.topology.BeaconServers[1][1] = <<50>>
    /\ call.topology.BeaconServers[2][1] = <<49, 48>>
    /\ json_loads(topo_file).BeaconServers[1][1] = <<49, 48>>
    /\ scheduled = call.threads_before + 1

\* C14: while the topology file is absent no step creates it or schedules a
\* restart, and an update_topology call made then returns a failure envelope.
C14_AbsentStaysAbsent ==
    [][topo_file = NoFile =>
          /\ topo_file' = NoFile
          /\ scheduled' = scheduled
          /\ (call'.method = "update_topology" => IsFailure(call'.out))]_vars

\* a push on an absent file
C14_Witness_Absent ==
    /\ call.method = "update_topology"
    /\ call.pre = NoFile
    /\ topo_file = NoFile
    /\ scheduled = call.threads_before
    /\ IsFailure(call.out)

\* C16 as stated: while the response of an update_topology call has not been
\* returned, the restart thread started by that call has not restarted the
\* supervisor.
C16_RestartAfterReply ==
    call.method = "update_topology" => restarted <= call.threads_before

\* what does hold: the restart is made by a thread started by the call, never
\* by the handler itself, and at most once per successful call
C16_RestartDeferred ==
    /\ restarted <= scheduled
    /\ [][call'.method = "update_topology" /\ call.method # "update_topology"
             => restarted' = restarted]_vars

\* C18: get_topology leaves the file as it is, fails when the file is absent,
\* and after a successful update_topology(T) returns the serialization of T,
\* which loads as the dictionary T.
C18_RoundTrip ==
    call.method = "get_topology" =>
        /\ topo_file = call.pre
        /\ call.pre = NoFile => IsFailure(call.out)
        /\ pushed # None =>
              /\ call.out = Returned(response_success(json_dump(pushed)))
              /\ SameDocument(json_loads(call.out.value[2]), pushed)

\* the document read back was pushed with beacon servers "2" and "10"
C18_Witness_ReadBack ==
    /\ call.method = "get_topology"
    /\ pushed # None
    /\ Len(pushed.BeaconServers) = 2
    /\ pushed.BeaconServers[1][1] = <<50>>
    /\ pushed.BeaconServers[2][1] = <<49, 48>>
    /\ IsSuccess(call.out)

CompareCall == call.method = "compare_remote_topology"

\* C9: the diff of a document against itself is empty and the status is OK.
C9_SelfDiffEmpty ==
    (CompareCall /\ call.remote = call.current) =>
        (call.changes = <<>> /\ call.status = "OK")

\* a document compared with itself whose path servers are not stored in the
\* order of their numbers
C9_Witness_Self ==
    /\ CompareCall
    /\ call.remote = call.current
    /\ Len(call.current.PathServers) = 2
    /\ int_of(call.current.PathServers[1][1]) > int_of(call.current.PathServers[2][1])
    /\ call.status = "OK"

\* remote is current with the NeighborType of router number i changed
OnlyNeighborTypeDiffers(current, remote, i) ==
    /\ i \in DOMAIN current.EdgeRouters
    /\ i \in DOMAIN remote.EdgeRouters
    /\ remote.EdgeRouters[i][2].Interface.NeighborType
         # current.EdgeRouters[i][2].Interface.NeighborType
    /\ remote = [current EXCEPT !.EdgeRouters[i][2].Interface.NeighborType =
                    remote.EdgeRouters[i][2].Interface.NeighborType]

\* C10: when the two documents differ only in the NeighborType of one router,
\* the diff is the single entry of field Interface:NeighborType of the
\* EdgeRouters with the two values, and the status is CHANGED.
C10_OneNeighborTypeEntry ==
    (CompareCall /\ call.remote # None) =>
        \A i \in 1..MaxElems :
            OnlyNeighborTypeDiffers(call.current, call.remote, i) =>
                /\ call.changes =
                     << <<"differ for one of", "Interface", "NeighborType",
                          "EdgeRouters",
                          call.remote.EdgeRouters[i][2].Interface.NeighborType,
                          call.current.EdgeRouters[i][2].Interface.NeighborType>> >>
                /\ call.status = "CHANGED"

\* the second of two routers differs in its NeighborType
C10_Witness_SecondRouter ==
    /\ CompareCall
    /\ call.remote # None
    /\ OnlyNeighborTypeDiffers(call.current, call.remote, 2)
    /\ Len(call.changes) = 1

ConnectCall == call.method = "connect_new_ad"

\* C17: when the remote topology cannot be retrieved or the diff of the local
\* and the remote topology is not empty, connect_new_ad answers with an error
\* and the database and the packages are as before the call; an AD record is
\* created only by a call whose diff is empty.
C17_ConnectGated ==
    /\ ConnectCall =>
          ((call.remote = None \/ _get_changes(call.current, call.remote) # <<>>)
              => /\ db = call.pre
                 /\ call.out.value.kind = "redirect")
    /\ db # InitialDb =>
          /\ remote_topology # None
          /\ _get_changes(current_topology, remote_topology) = <<>>

\* a request refused because one router's NeighborType differs
C17_Witness_Refused ==
    /\ ConnectCall
    /\ call.remote # None
    /\ OnlyNeighborTypeDiffers(call.current, call.remote, 1)
    /\ db = InitialDb
    /\ call.out.value.kind = "redirect"

\* a complete topology document, as json.dump writes it
CompleteText(text) == text \in {json_dump(d) : d \in TopoDocs}

\* C15 as stated: whatever get_topology returns while update_topology runs on
\* another connection is a complete document, the previous one or the new
\* one, never an empty or partly written text.
C15_AtomicPersist ==
    (call.method = "get_topology" /\ IsSuccess(call.out)) =>
        CompleteText(call.out.value[2])

\* what does hold: a call that runs alone ends as update_topology computes it
\* in one step, and a read made while no write is under way is complete
C15_SequentialAgrees ==
    /\ writer.pc = "return" =>
          LET r == update_topology(writer.pre, writer.threads_before, writer.topology)
          IN /\ writer.out = r.out
             /\ topo_file = r.file
             /\ scheduled = r.threads
    /\ (writer.pc \in {"idle", "return"} /\ topo_file # NoFile) => CompleteText(topo_file)

(***************************************************************************)
(* Properties of the entries of the diff                                   *)
(***************************************************************************)
\* the collection an entry of the diff is about ("" for a scalar entry)
CollectionOf(e) ==
    CASE e[1] = "Different number of servers" -> e[2]
      [] e[1] = "values differ for one of" -> e[3]
      [] e[1] = "differ for one of" -> e[4]
      [] OTHER -> ""

EntriesFor(server_type) ==
    SelectSeq(call.changes, LAMBDA e : CollectionOf(e) = server_type)

\* the collections that _get_changes is to compare
Collections == {"PathServers", "CertificateServers", "BeaconServers", "EdgeRouters"}

\* the elements of a collection in the order of the numbers of their names
ByNumber(items) ==
    LET place(i) == Cardinality({j \in DOMAIN items :
                                   int_of(items[j][1]) <= int_of(items[i][1])})
    IN [n \in DOMAIN items |->
          items[CHOOSE i \in DOMAIN items : place(i) = n][2]]

\* the compared fields of two elements are equal
SameFields(rs, cs, server_type) ==
    /\ rs.Addr = cs.Addr
    /\ server_type = "EdgeRouters" =>
          \A f \in {"NeighborAD", "NeighborISD", "NeighborType"} :
              rs.Interface[f] = cs.Interface[f]

\* C23: a collection whose number of elements differs gets exactly one
\* entry, the count entry, and no field entry; a collection of equal size is
\* compared all the same: it has an entry exactly when two paired elements
\* differ in a compared field.
C23_CountMismatch ==
    (CompareCall /\ call.remote # None) =>
        \A st \in Collections :
            IF Len(call.current[st]) # Len(call.remote[st])
            THEN EntriesFor(st) = << <<"Different number of servers", st>> >>
            ELSE /\ \A i \in DOMAIN EntriesFor(st) :
                       EntriesFor(st)[i][1] # "Different number of servers"
                 /\ (EntriesFor(st) = <<>>) <=>
                       \A i \in DOMAIN call.current[st] :
                           SameFields(ByNumber(call.remote[st])[i],
                                      ByNumber(call.current[st])[i], st)

\* the path servers differ in number and in the address of the first one,
\* and the beacon servers differ in an address
C23_Witness_Mixed ==
    /\ CompareCall
    /\ call.remote # None
    /\ Len(call.current.PathServers) = 1
    /\ Len(call.remote.PathServers) = 2
    /\ ByNumber(call.remote.PathServers)[1].Addr # call.current.PathServers[1][2].Addr
    /\ EntriesFor("PathServers") = << <<"Different number of servers", "PathServers">> >>

\* C24 as stated: two documents whose DNS servers differ (in an address or in
\* their number) have a non-empty diff and the status CHANGED.
C24_DnsCompared ==
    (CompareCall /\ call.remote # None
        /\ ~SameItems(call.current.DNSServers, call.remote.DNSServers)) =>
        (call.changes # <<>> /\ call.status = "CHANGED")

\* what does hold: the DNS servers have no entry in any diff, and documents
\* that differ in their DNS servers only have an empty diff
C24_DnsIgnored ==
    (CompareCall /\ call.remote # None) =>
        /\ EntriesFor("DNSServers") = <<>>
        /\ (\A k \in DOMAIN call.current \ {"DNSServers"} :
                call.current[k] = call.remote[k]) => call.changes = <<>>

\* each collection of a document stored in the opposite order
Reversed(doc) ==
    [k \in DOMAIN doc |->
        IF k \in CollectionKeys
        THEN [i \in DOMAIN doc[k] |-> doc[k][Len(doc[k]) + 1 - i]]
        ELSE doc[k]]

\* C25: each of ADID, ISDID and Core has one entry when it differs and none
\* when it is equal, and the diff is the same when the entries of the
\* collections of either document are stored in the opposite order.
C25_ScalarsAndOrder ==
    (CompareCall /\ call.remote # None) =>
        /\ \A k \in {"ADID", "ISDID", "Core"} :
              Cardinality({i \in DOMAIN call.changes :
                             call.changes[i] = <<"values differ", k>>})
                = IF call.current[k] # call.remote[k] THEN 1 ELSE 0
        /\ \A i \in DOMAIN call.changes :
              call.changes[i][1] = "values differ"
                 => call.changes[i][2] \in {"ADID", "ISDID", "Core"}
        /\ _get_changes(Reversed(call.current), call.remote) = call.changes
        /\ _get_changes(call.current, Reversed(call.remote)) = call.changes

\* the ISD ids differ and the remote path servers are stored as "10", "2"
C25_Witness_Scalar ==
    /\ CompareCall
    /\ call.remote # None
    /\ call.current.ISDID # call.remote.ISDID
    /\ Len(call.remote.PathServers) = 2
    /\ int_of(call.remote.PathServers[1][1]) > int_of(call.remote.PathServers[2][1])
    /\ <<"values differ", "ISDID">> \in Range(call.changes)

(***************************************************************************)
(* Properties of the pull of the remote topology                           *)
(***************************************************************************)
PullCall == call.method = "update_from_remote_topology" /\ call.remote # None

\* every router of the remote topology has a neighbor AD that exists
AllResolve ==
    \A i \in DOMAIN call.remote.EdgeRouters :
        neighbor_resolves(call.ads, call.remote.EdgeRouters[i][2])

\* no two elements of one type of the remote topology share an address
DistinctAddrs ==
    \A k \in CollectionKeys : \A i, j \in DOMAIN call.remote[k] :
        i # j => call.remote[k][i][2].Addr # call.remote[k][j][2].Addr

\* the stored elements are exactly the elements of the remote topology
StoredIsRemote ==
    \A k \in CollectionKeys : SameItems(current_topology[k], call.remote[k])

\* C26 as stated: after the pull the stored elements are exactly those of the
\* remote topology, also when two elements of a type share an address.
C26_ApplyReplaces == (PullCall /\ AllResolve) => StoredIsRemote

\* what does hold: the same when the addresses within each type are distinct
C26_DistinctAddresses == (PullCall /\ AllResolve /\ DistinctAddrs) => StoredIsRemote

\* C27 as stated: with a router whose neighbor AD does not exist the pull
\* completes normally, and the other routers and all the servers of the
\* remote topology are stored.
C27_UnresolvedSkipped ==
    (PullCall /\ ~AllResolve /\ DistinctAddrs) =>
        /\ ~call.out.raised
        /\ \A k \in CollectionKeys : \A i \in DOMAIN call.remote[k] :
              (k = "EdgeRouters" => neighbor_resolves(call.ads, call.remote[k][i][2]))
                 => call.remote[k][i] \in Range(current_topology[k])

\* what does hold: the pull ends with the exception DoesNotExist and the
\* stored elements are those of before the pull
C27_UnresolvedRaises ==
    (PullCall /\ ~AllResolve /\ DistinctAddrs) =>
        /\ call.out = Raised("DoesNotExist")
        /\ current_topology = call.stored

(***************************************************************************)
(* Properties of two update_topology calls at the same time                *)
(***************************************************************************)
\* both calls have returned a success response
BothSucceeded ==
    \A w \in Callers : writer[w].pc = "returned" /\ IsSuccess(writer[w].out)

\* C28 as stated: when two update_topology calls run at the same time and
\* both succeed, the file holds one of the two documents in full, never a
\* mixture, and two restarts are scheduled.
C28_LastWriteWins ==
    BothSucceeded =>
        /\ \E w \in Callers : topo_file = pieces_of(json_dump(writer[w].topology))
        /\ scheduled = 2

\* what does hold: two restarts are scheduled, and each place of the file
\* holds nothing or the piece of that place of one of the two documents
C28_PiecesOfEither ==
    BothSucceeded =>
        /\ scheduled = 2
        /\ \A n \in DOMAIN topo_file.pieces :
              \/ topo_file.pieces[n] = Hole
              \/ \E w \in Callers :
                    topo_file.pieces[n] = piece_of(json_dump(writer[w].topology), n)

(***************************************************************************)
(* Properties of the two steps of RESTART                                  *)
(***************************************************************************)
RestartCall == call.method = "control_process" /\ call.command = "RESTART"

\* the requests of a call that stopped and then started the process
StopThenStart ==
    << <<"getProcessInfo", call.name>>, <<"stopProcess", call.name>>,
       <<"getProcessInfo", call.name>>, <<"startProcess", call.name>> >>

\* C30: in a RESTART every stop request is sent and answered before any
\* start request, at most one stop and one start request are sent, and a
\* RESTART of a RUNNING process that reports success has stopped the process
\* and then started it.
C30_StopBeforeStart ==
    RestartCall =>
        /\ \A i \in StopRequests : \A j \in StartRequests :
              i < j /\ call.fault_at # i
        /\ Cardinality(StopRequests) <= 1
        /\ Cardinality(StartRequests) <= 1
        /\ (call.name \in DOMAIN call.pre /\ call.pre[call.name] = "RUNNING"
              /\ IsSuccess(call.out)) =>
              /\ call.reqs = StopThenStart
              /\ procs[call.name] = "RUNNING"

\* a RESTART of a RUNNING process that reported success
C30_Witness_Running ==
    /\ RestartCall
    /\ call.name \in DOMAIN call.pre
    /\ call.pre[call.name] = "RUNNING"
    /\ IsSuccess(call.out)
    /\ call.reqs = StopThenStart
    /\ procs[call.name] = "RUNNING"

(***************************************************************************)
(* Properties of two control_process calls at the same time                *)
(***************************************************************************)
\* both callers have called the command for the process, found in the state
BothCalled(command, name, state) ==
    \A w \in Callers :
        /\ call[w].pc # "idle"
        /\ call[w].command = command
        /\ call[w].name = name
        /\ call[w].pre[name] = state

\* the number of requests of the kind that the call of caller w has sent
SentBy(w, kind) ==
    Cardinality({i \in DOMAIN call[w].reqs : call[w].reqs[i][1] = kind})

BsName == full_name(get_full_ad_name(1, 1), "bs1-1-1")

\* C31 as stated: two START calls at the same time for a STOPPED process
\* send at most one start request between them, and two STOP calls for a
\* RUNNING process send at most one stop request.
C31_OneRequestBetween ==
    /\ BothCalled("START", BsName, "STOPPED") =>
          SentBy(1, "startProcess") + SentBy(2, "startProcess") <= 1
    /\ BothCalled("STOP", BsName, "RUNNING") =>
          SentBy(1, "stopProcess") + SentBy(2, "stopProcess") <= 1

\* what does hold: each call sends at most one request of its kind, and of
\* two requests the second is answered with a fault that leaves the handler
C31_OnePerCall ==
    \A command \in {"START", "STOP"} : \A state \in {"STOPPED", "RUNNING"} :
        BothCalled(command, BsName, state) =>
            LET kind == IF command = "START" THEN "startProcess" ELSE "stopProcess"
            IN /\ \A w \in Callers : SentBy(w, kind) <= 1
               /\ (\A w \in Callers : call[w].pc = "returned" /\ SentBy(w, kind) = 1)
                     => \E w \in Callers : call[w].out.raised

(***************************************************************************)
(* Properties of the diff taken in both directions                         *)
(***************************************************************************)
\* the diff of the same two documents with the sides exchanged
Backward == _get_changes(call.remote, call.current)

\* C32: the diff of two documents is empty exactly when the diff with the
\* sides exchanged is empty, and the two lists have the same length.
C32_SymmetricLength ==
    (CompareCall /\ call.remote # None) =>
        /\ (call.changes = <<>>) <=> (Backward = <<>>)
        /\ Len(call.changes) = Len(Backward)

\* two documents with a different number of routers and another scalar: the
\* diff has two entries in each direction
C32_Witness_TwoEntries ==
    /\ CompareCall
    /\ call.remote # None
    /\ Len(call.current.EdgeRouters) < Len(call.remote.EdgeRouters)
    /\ call.current.Core # call.remote.Core
    /\ Len(call.changes) = 2
    /\ Len(Backward) = 2

====
